---------------------------- MODULE Spec2Model ----------------------------
(***************************************************************************)
(* Kalman filter, Kalman smoother, the fused filter+smoother and the EM    *)
(* E-step of SebKrantz/DFM (src/src/KalmanFiltering.cpp,                   *)
(* src/src/EM_algorithm.cpp), in exact rational arithmetic.                *)
(*                                                                         *)
(* A number is a pair <<p, q>>: the rational p/q in lowest terms with      *)
(* q > 0, or the not-a-number sentinel <<0, 0>>.  A matrix is a record     *)
(* [nr, nc, a] with a[i][j] its entries (1-based), so that the empty       *)
(* shapes 0 x r and r x 0 that an all-missing row produces stay distinct.  *)
(* A cube is a sequence of matrices; slice t of the source (0-based) is    *)
(* element t+1.                                                            *)
(***************************************************************************)
EXTENDS Integers, Sequences, FiniteSets, TLC

(***************************************************************************)
(* Rational arithmetic                                                     *)
(***************************************************************************)
Abs(x) == IF x < 0 THEN -x ELSE x

RECURSIVE GCD(_, _)
GCD(a, b) == IF b = 0 THEN a ELSE GCD(b, a % b)

Rat(p, q) ==
    LET g == GCD(Abs(p), Abs(q))
        s == IF q < 0 THEN -1 ELSE 1
    IN  <<(s * p) \div g, (s * q) \div g>>

NaN == <<0, 0>>
IsFinite(x) == x[2] # 0
RZero == <<0, 1>>
ROne == <<1, 1>>
RInt(k) == <<k, 1>>
\* Sums and products cancel common factors before multiplying, which keeps
\* the intermediate integers small.
RAdd(x, y) ==
    LET g == GCD(x[2], y[2])
    IN  Rat(x[1] * (y[2] \div g) + y[1] * (x[2] \div g), (x[2] \div g) * y[2])
RMul(x, y) ==
    LET g1 == GCD(Abs(x[1]), y[2])
        g2 == GCD(Abs(y[1]), x[2])
    IN  IF x[1] = 0 \/ y[1] = 0 THEN <<0, 1>>
        ELSE <<(x[1] \div g1) * (y[1] \div g2), (x[2] \div g2) * (y[2] \div g1)>>
RSub(x, y) == RAdd(x, <<-y[1], y[2]>>)
RDiv(x, y) == RMul(x, IF y[1] < 0 THEN <<-y[2], -y[1]>> ELSE <<y[2], y[1]>>)
RNeg(x) == <<-x[1], x[2]>>
RPos(x) == x[1] > 0

(***************************************************************************)
(* Dense matrices (arma::mat, arma::colvec) and cubes (arma::cube)         *)
(***************************************************************************)
\* The entries are built as explicit tuples, each computed once.
RECURSIVE Tup(_, _)
Tup(fn, k) == IF k = 0 THEN <<>> ELSE Append(Tup(fn, k - 1), fn[k])
RECURSIVE TupRows(_, _, _)
TupRows(fn, nr, nc) ==
    IF nr = 0 THEN <<>> ELSE Append(TupRows(fn, nr - 1, nc), Tup(fn[nr], nc))
Mat(nr, nc, f(_, _)) ==
    [nr |-> nr, nc |-> nc,
     a |-> TupRows([i \in 1..nr |-> [j \in 1..nc |-> f(i, j)]], nr, nc)]

\* A matrix written as rows of integers (input literals).
M(rows) ==
    LET e(i, j) == RInt(rows[i][j])
    IN  Mat(Len(rows), IF Len(rows) = 0 THEN 0 ELSE Len(rows[1]), e)

\* A data matrix written as rows of cells (input literals; cells may be NaN).
MX(rows) ==
    LET e(i, j) == rows[i][j]
    IN  Mat(Len(rows), IF Len(rows) = 0 THEN 0 ELSE Len(rows[1]), e)

Zeros(nr, nc) == LET e(i, j) == RZero IN Mat(nr, nc, e)
Eye(n) == LET e(i, j) == IF i = j THEN ROne ELSE RZero IN Mat(n, n, e)
ZeroCube(nr, nc, ns) == Tup([s \in 1..ns |-> Zeros(nr, nc)], ns)

Transpose(A) == LET e(i, j) == A.a[j][i] IN Mat(A.nc, A.nr, e)
MatAdd(A, B) == LET e(i, j) == RAdd(A.a[i][j], B.a[i][j]) IN Mat(A.nr, A.nc, e)
MatSub(A, B) == LET e(i, j) == RSub(A.a[i][j], B.a[i][j]) IN Mat(A.nr, A.nc, e)

RECURSIVE Dot(_, _, _, _, _)
Dot(A, B, i, j, k) ==
    IF k = 0 THEN RZero
    ELSE RAdd(Dot(A, B, i, j, k - 1), RMul(A.a[i][k], B.a[k][j]))

\* operator*: an empty inner dimension gives a zero-filled product.
MatMul(A, B) == LET e(i, j) == Dot(A, B, i, j, A.nc) IN Mat(A.nr, B.nc, e)

\* find_finite / find_nonfinite on a row vector: ascending 1-based indices.
RECURSIVE FindIdx(_, _, _)
FindIdx(row, k, fin) ==
    IF k = 0 THEN <<>>
    ELSE LET rest == FindIdx(row, k - 1, fin)
         IN  IF IsFinite(row[k]) = fin THEN Append(rest, k) ELSE rest
find_finite(row) == FindIdx(row, Len(row), TRUE)

\* X.submat(rows, cols) with index vectors.
submat(A, ri, ci) ==
    LET e(i, j) == A.a[ri[i]][ci[j]] IN Mat(Len(ri), Len(ci), e)

\* Row t (0-based) of a matrix as a 1 x nc matrix; assignment to a row.
row(A, t) == LET e(i, j) == A.a[t + 1][j] IN Mat(1, A.nc, e)
SetRow(A, t, v) == [A EXCEPT !.a[t + 1] = v.a[1]]
\* Slice t (0-based) of a cube; assignment to a slice.
slice(Cb, t) == Cb[t + 1]
SetSlice(Cb, t, v) == [Cb EXCEPT ![t + 1] = v]

\* The matrix without row i and column j.
Minor(A, i, j) ==
    LET e(p, q) == A.a[IF p < i THEN p ELSE p + 1][IF q < j THEN q ELSE q + 1]
    IN  Mat(A.nr - 1, A.nc - 1, e)

\* det(): Laplace expansion along the first row; the empty matrix has
\* determinant 1.
RECURSIVE det(_)
RECURSIVE DetSum(_, _)
DetSum(A, j) ==
    IF j = 0 THEN RZero
    ELSE LET term == RMul(A.a[1][j], det(Minor(A, 1, j)))
         IN  RAdd(DetSum(A, j - 1), IF j % 2 = 1 THEN term ELSE RNeg(term))
det(A) == IF A.nr = 0 THEN ROne ELSE DetSum(A, A.nc)

\* .i() fails on a singular matrix; the inverse of an empty matrix is empty.
Singular(A) == det(A) = RZero
inv(A) ==
    LET d == det(A)
        e(i, j) == LET c == RDiv(det(Minor(A, j, i)), d)
                   IN  IF (i + j) % 2 = 0 THEN c ELSE RNeg(c)
    IN  Mat(A.nr, A.nc, e)

Symmetric(A) == A = Transpose(A)


(***************************************************************************)
(* Inputs                                                                  *)
(***************************************************************************)
\* Longest series length T explored.
MaxT == 4

I2 == <<<<1, 0>>, <<0, 1>>>>
\* Model matrices (C n x r, Q r x r, R n x n, A r x r, F0 r, P0 r x r).
Models ==
    { \* scalar state, scalar observation
      [C |-> M(<<<<1>>>>), Q |-> M(<<<<1>>>>), R |-> M(<<<<1>>>>),
       A |-> M(<<<<1>>>>), F0 |-> M(<<<<0>>>>), P0 |-> M(<<<<1>>>>)],
      \* an observation covariance that is not positive semi-definite
      [C |-> M(<<<<1>>>>), Q |-> M(<<<<1>>>>), R |-> M(<<<<-2>>>>),
       A |-> M(<<<<1>>>>), F0 |-> M(<<<<1>>>>), P0 |-> M(<<<<1>>>>)],
      \* no noise at all: the innovation covariance is singular
      [C |-> M(<<<<1>>>>), Q |-> M(<<<<0>>>>), R |-> M(<<<<0>>>>),
       A |-> M(<<<<1>>>>), F0 |-> M(<<<<0>>>>), P0 |-> M(<<<<0>>>>)],
      \* two states, one channel
      [C |-> M(<<<<1, 0>>>>), Q |-> M(I2), R |-> M(<<<<1>>>>),
       A |-> M(<<<<1, 1>>, <<0, 1>>>>), F0 |-> M(<<<<0>>, <<1>>>>), P0 |-> M(I2)],
      \* one state, two channels
      [C |-> M(<<<<1>>, <<1>>>>), Q |-> M(<<<<1>>>>), R |-> M(I2),
       A |-> M(<<<<1>>>>), F0 |-> M(<<<<0>>>>), P0 |-> M(<<<<1>>>>)],
      \* two states, two channels
      [C |-> M(<<<<1, 0>>, <<1, 1>>>>), Q |-> M(I2), R |-> M(I2),
       A |-> M(<<<<1, 1>>, <<0, 1>>>>), F0 |-> M(<<<<0>>, <<0>>>>), P0 |-> M(I2)] }

\* The rows a series over n channels is drawn from: nothing observed, (for
\* n = 2) one channel observed, everything observed.
Rows(n) ==
    IF n = 1 THEN {<<NaN>>, <<RInt(2)>>}
    ELSE {<<NaN, NaN>>, <<RInt(1), NaN>>, <<RInt(1), RInt(2)>>}

\* Series over a two-dimensional state are one step shorter: their exact
\* fractions grow much faster.
MaxLen(m) == IF m.A.nr = 1 THEN MaxT ELSE MaxT - 1

(***************************************************************************)
(* State                                                                   *)
(***************************************************************************)
VARIABLES
    in,      \* the caller's arguments X, C, Q, R, A, F0, P0
    pc,      \* position in the running function
    t,       \* loop counter of the running loop (t, j or i of the source)
    X,       \* Estep's own copy of X
    C, R,    \* the running function's parameters C and R (assigned in the filter loop)
    tC, tR,  \* copies of C and R taken before the filter loop
    fp, Pp, loglik, PT, PpT, FT, PfT,      \* filter locals and histories
    J, L, K, PsTm, FsT, PsT,               \* smoother locals and histories
    delta, gamma, beta,                    \* Estep accumulators
    kf, ksm, ks, es                        \* what each call returned

fvars == <<C, R, tC, tR, fp, Pp, loglik, PT, PpT, FT, PfT>>
svars == <<J, L, K, PsTm, FsT, PsT>>
evars == <<X, delta, gamma, beta>>
rvars == <<kf, ksm, ks, es>>
vars == <<in, pc, t, fvars, svars, evars, rvars>>

\* A local that holds nothing (not yet constructed, or out of scope).
None == Zeros(0, 0)
NoCube == <<>>
NoResult == [st |-> "none"]

\* The log-likelihood -0.5 * (c * log(2 pi) - log(ld) + q), kept as the
\* exact triple (c, ld, q).
LLZero == [c |-> 0, ld |-> ROne, q |-> RZero]
LLAdd(ll, n, detS, quad) ==
    [c |-> ll.c + n, ld |-> RMul(ll.ld, detS), q |-> RAdd(ll.q, quad)]

\* KalmanFilter / KalmanFilterSmoother: const int T, n, rp.
T == in.X.nr
n == in.X.nc
rp == in.A.nr
\* uvec nmiss = find_finite(A.row(0))
nmiss == find_finite(row(in.A, 0).a[1])

\* Declarations and initialisation before the filter loop.
FilterLocals ==
    /\ loglik' = LLZero
    /\ PT' = Zeros(T + 1, rp)
    /\ PpT' = ZeroCube(rp, rp, T + 1)
    /\ FT' = Zeros(T, rp)
    /\ PfT' = ZeroCube(rp, rp, T)
    /\ C' = in.C
    /\ R' = in.R
    /\ tC' = in.C
    /\ tR' = in.R
    /\ fp' = in.F0
    /\ Pp' = in.P0

NoSmootherLocals ==
    /\ J' = NoCube /\ L' = NoCube /\ K' = NoCube
    /\ PsTm' = NoCube /\ FsT' = None /\ PsT' = NoCube

NoFilterLocals ==
    /\ loglik' = LLZero /\ PT' = None /\ PpT' = NoCube /\ FT' = None
    /\ PfT' = NoCube /\ C' = None /\ R' = None /\ tC' = None /\ tR' = None
    /\ fp' = None /\ Pp' = None

NoEstepLocals ==
    /\ X' = None /\ delta' = None /\ gamma' = None /\ beta' = None

Init ==
    /\ \E m \in Models :
         \E len \in 1..MaxLen(m) :
           \E xs \in [1..len -> Rows(m.C.nr)] :
             in = [X |-> MX(xs), C |-> m.C, Q |-> m.Q, R |-> m.R,
                   A |-> m.A, F0 |-> m.F0, P0 |-> m.P0]
    \* the caller calls KalmanFilter(X, C, Q, R, A, F0, P0)
    /\ pc = <<"KF", "loop">>
    /\ t = 0
    /\ loglik = LLZero
    /\ PT = Zeros(T + 1, rp)
    /\ PpT = ZeroCube(rp, rp, T + 1)
    /\ FT = Zeros(T, rp)
    /\ PfT = ZeroCube(rp, rp, T)
    /\ C = in.C /\ R = in.R /\ tC = in.C /\ tR = in.R
    /\ fp = in.F0 /\ Pp = in.P0
    /\ J = NoCube /\ L = NoCube /\ K = NoCube
    /\ PsTm = NoCube /\ FsT = None /\ PsT = NoCube
    /\ X = None /\ delta = None /\ gamma = None /\ beta = None
    /\ kf = NoResult /\ ksm = NoResult /\ ks = NoResult /\ es = NoResult

(***************************************************************************)
(* The filter loop                                                         *)
(***************************************************************************)
\* miss = find_finite(X.row(t)); C = tC.submat(miss, nmiss);
\* R = tR.submat(miss, miss)
Miss(Xm, tt) == find_finite(row(Xm, tt).a[1])
RestrictC(Xm, tt) == submat(tC, Miss(Xm, tt), nmiss)
RestrictR(Xm, tt) == submat(tR, Miss(Xm, tt), Miss(Xm, tt))

\* The matrix whose inverse is S.
Innovation(Cm, Rm, Pm) == MatAdd(MatMul(MatMul(Cm, Pm), Transpose(Cm)), Rm)
\* xe = X.submat(a, miss).t() - C * fp
PredictionError(Xm, tt, Cm, fm) ==
    MatSub(Transpose(submat(Xm, <<tt + 1>>, Miss(Xm, tt))), MatMul(Cm, fm))
\* K = Pp * C.t() * S
Gain(Pm, Cm, S) == MatMul(MatMul(Pm, Transpose(Cm)), S)
\* ff = fp + K * xe
UpdateMean(fm, Kg, xe) == MatAdd(fm, MatMul(Kg, xe))
\* Pf = Pp - K * C * Pp
UpdateCov(Pm, Kg, Cm) == MatSub(Pm, MatMul(MatMul(Kg, Cm), Pm))
\* A variant of PredictCov that leaves out the transposed factor.
PredictCov_NoTranspose(Pf) == MatAdd(MatMul(in.A, Pf), in.Q)
\* fp = A * FT.row(t).t(); Pp = A * PfT.slice(t) * A.t() + Q
PredictMean(ff) == MatMul(in.A, ff)
PredictCov(Pf) == MatAdd(MatMul(MatMul(in.A, Pf), Transpose(in.A)), in.Q)
\* A variant of Likelihood whose constant term counts only the channels
\* observed at this step.
Likelihood_ObservedCount(ll, S, xe) ==
    IF RPos(det(S))
    THEN LLAdd(ll, xe.nr, det(S), MatMul(MatMul(Transpose(xe), S), xe).a[1][1])
    ELSE ll
\* if (det(S) > 0) loglik += -0.5 * (double(n) * log(2 pi) - log(det(S)) + xe' S xe)
Likelihood(ll, S, xe) ==
    IF RPos(det(S))
    THEN LLAdd(ll, n, det(S), MatMul(MatMul(Transpose(xe), S), xe).a[1][1])
    ELSE ll

\* One iteration of the filter loop on data Xm, when S can be inverted.
FilterIteration(Xm) ==
    LET Cn == RestrictC(Xm, t)
        Rn == RestrictR(Xm, t)
        S  == inv(Innovation(Cn, Rn, Pp))
        xe == PredictionError(Xm, t, Cn, fp)
        Kg == Gain(Pp, Cn, S)
        ff == UpdateMean(fp, Kg, xe)
        Pf == UpdateCov(Pp, Kg, Cn)
    IN  /\ C' = Cn
        /\ R' = Rn
        /\ loglik' = Likelihood(loglik, S, xe)
        /\ PT' = SetRow(PT, t, Transpose(fp))
        /\ PpT' = SetSlice(PpT, t, Pp)
        /\ FT' = SetRow(FT, t, Transpose(ff))
        /\ PfT' = SetSlice(PfT, t, Pf)
        /\ fp' = PredictMean(ff)
        /\ Pp' = PredictCov(Pf)
        /\ t' = t + 1
        /\ UNCHANGED <<tC, tR>>

\* .i() of a singular matrix throws.
FilterSingular(Xm) ==
    Singular(Innovation(RestrictC(Xm, t), RestrictR(Xm, t), Pp))

(***************************************************************************)
(* KalmanFilter                                                            *)
(***************************************************************************)
\* The loop: one iteration, or the loop test failing.
KF_Step ==
    /\ pc = <<"KF", "loop">>
    /\ IF t < T
       THEN IF FilterSingular(in.X)
            THEN /\ kf' = [st |-> "error", err |-> "singular"]
                 /\ pc' = <<"E", "call">>
                 /\ t' = 0
                 /\ NoFilterLocals
            ELSE /\ FilterIteration(in.X)
                 /\ UNCHANGED <<pc, kf>>
       ELSE /\ pc' = <<"KF", "ret">>
            /\ UNCHANGED <<t, fvars, kf>>
    /\ UNCHANGED <<in, svars, evars, ksm, ks, es>>

\* return List::create(F = FT, Pf = PfT, P = PT, Pp = PpT, loglik = loglik)
KF_Return ==
    /\ pc = <<"KF", "ret">>
    /\ kf' = [st |-> "ok", F |-> FT, Pf |-> PfT, P |-> PT, Pp |-> PpT,
              loglik |-> loglik]
    /\ pc' = <<"KS", "call">>
    /\ NoFilterLocals
    /\ UNCHANGED <<in, t, svars, evars, ksm, ks, es>>

(***************************************************************************)
(* The smoother: KalmanSmoother ("KS") and the second half of              *)
(* KalmanFilterSmoother ("FS") are the same statements over the            *)
(* function's own C, R and histories.                                      *)
(***************************************************************************)
\* cube J, L, K, PsTm; mat FsT; cube PsT; FsT.row(T-1) = FT.row(T-1);
\* PsT.slice(T-1) = PfT.slice(T-1), over filter histories F and Pf; nn is
\* the function's n (C.n_rows in KalmanSmoother, X.n_cols in
\* KalmanFilterSmoother).  Both functions take T from the histories' row
\* count, which is the series length.
SmootherLocals(F, Pf, nn) ==
    /\ J' = ZeroCube(rp, rp, T)
    /\ L' = ZeroCube(nn, nn, T)
    /\ K' = ZeroCube(rp, nn, T)
    /\ PsTm' = ZeroCube(rp, rp, T)
    /\ FsT' = SetRow(Zeros(T, rp), T - 1, row(F, T - 1))
    /\ PsT' = SetSlice(ZeroCube(rp, rp, T), T - 1, slice(Pf, T - 1))

\* An exception leaves the running function: KalmanSmoother's goes to the
\* caller, KalmanFilterSmoother's goes through Estep to the caller.
Fail(p, e) ==
    /\ IF p = "KS"
       THEN /\ ksm' = [st |-> "error", err |-> e]
            /\ pc' = <<"E", "call">>
            /\ NoEstepLocals
            /\ UNCHANGED <<ks, es>>
       ELSE /\ ks' = [st |-> "error", err |-> e]
            /\ es' = [st |-> "error", err |-> e]
            /\ pc' = <<"-", "done">>
            /\ NoEstepLocals
            /\ UNCHANGED ksm
    /\ t' = 0
    /\ NoFilterLocals
    /\ NoSmootherLocals
    /\ UNCHANGED <<in, kf>>

\* J.slice(t) = PfT.slice(t) * A.t() * PpT.slice(t+1).i()
SmootherGain(tt) ==
    MatMul(MatMul(slice(PfT, tt), Transpose(in.A)), inv(slice(PpT, tt + 1)))

JStep(p) ==
    /\ pc = <<p, "J">>
    /\ IF t < T - 1
       THEN IF Singular(slice(PpT, t + 1))
            THEN Fail(p, "singular")
            ELSE /\ J' = SetSlice(J, t, SmootherGain(t))
                 /\ t' = t + 1
                 /\ UNCHANGED <<in, pc, fvars, L, K, PsTm, FsT, PsT, evars, rvars>>
       ELSE /\ pc' = <<p, "back">>
            /\ t' = 2
            /\ UNCHANGED <<in, fvars, svars, evars, rvars>>

\* FsT.row(T-j) = FT.row(T-j) + (J.slice(T-j) * (FsT.row(T-j+1) - PT.row(T-j+1)).t()).t()
SmoothedMean(j) ==
    MatAdd(row(FT, T - j),
           Transpose(MatMul(slice(J, T - j),
               Transpose(MatSub(row(FsT, T - j + 1), row(PT, T - j + 1))))))
\* PsT.slice(T-j) = PfT.slice(T-j) + J.slice(T-j) * (PsT.slice(T-j+1) - PpT.slice(T-j+1)) * J.slice(T-j).t()
SmoothedCov(j) ==
    MatAdd(slice(PfT, T - j),
           MatMul(MatMul(slice(J, T - j),
                         MatSub(slice(PsT, T - j + 1), slice(PpT, T - j + 1))),
                  Transpose(slice(J, T - j))))
\* A variant of BackSlot that walks the slots upward.
BackSlot_Ascending(j) == j - 2
\* The slot the backward loop assigns in iteration j.
BackSlot(j) == T - j

BackStep(p) ==
    /\ pc = <<p, "back">>
    /\ IF t < T + 1
       THEN /\ FsT' = SetRow(FsT, BackSlot(t), SmoothedMean(t))
            /\ PsT' = SetSlice(PsT, BackSlot(t), SmoothedCov(t))
            /\ t' = t + 1
            /\ UNCHANGED <<in, pc, fvars, J, L, K, PsTm, evars, rvars>>
       ELSE /\ pc' = <<p, "LK">>
            /\ t' = 0
            /\ UNCHANGED <<in, fvars, svars, evars, rvars>>

\* L.slice(i) = (C * PpT.slice(i) * C.t() + R).i();
\* K.slice(i) = PpT.slice(i) * C.t() * L.slice(i)
\* A cube's slice has a fixed size: assigning a matrix of another size to it
\* throws when the library's checks are compiled in, and replaces the slice
\* when they are not.
LKStep(p) ==
    /\ pc = <<p, "LK">>
    /\ IF t < T
       THEN LET Linv == Innovation(C, R, slice(PpT, t))
            IN  IF Singular(Linv)
                THEN Fail(p, "singular")
                ELSE \/ /\ Linv.nr # slice(L, t).nr
                        /\ Fail(p, "size")
                     \/ /\ L' = SetSlice(L, t, inv(Linv))
                        /\ K' = SetSlice(K, t, Gain(slice(PpT, t), C, inv(Linv)))
                        /\ t' = t + 1
                        /\ UNCHANGED <<in, pc, fvars, J, PsTm, FsT, PsT, evars, rvars>>
       ELSE /\ pc' = <<p, "seed">>
            /\ UNCHANGED <<in, t, fvars, svars, evars, rvars>>

\* What a read outside a cube may yield when the library's bounds checks are
\* compiled out.
Garbage == {Zeros(rp, rp), Eye(rp)}

\* PsTm.slice(T-1) = (eye(rp,rp) - K.slice(T-1) * C) * A * PfT.slice(T-2)
LagOneSeed(Pf2) ==
    MatMul(MatMul(MatSub(Eye(rp), MatMul(slice(K, T - 1), C)), in.A), Pf2)

Seed(p) ==
    /\ pc = <<p, "seed">>
    /\ IF T - 2 >= 0
       THEN /\ PsTm' = SetSlice(PsTm, T - 1, LagOneSeed(slice(PfT, T - 2)))
            /\ pc' = <<p, "lag">>
            /\ t' = 2
            /\ UNCHANGED <<in, fvars, J, L, K, FsT, PsT, evars, rvars>>
       ELSE \/ Fail(p, "bounds")
            \/ \E g \in Garbage :
                 /\ PsTm' = SetSlice(PsTm, T - 1, LagOneSeed(g))
                 /\ pc' = <<p, "lag">>
                 /\ t' = 2
                 /\ UNCHANGED <<in, fvars, J, L, K, FsT, PsT, evars, rvars>>

\* The lag-one loop runs for (int j = 2; j < T-1; ++j) and assigns slot T-j.
LagLoopTest(j) == j < T - 1
\* PsTm.slice(T-j) = PfT.slice(T-j) * J.slice(T-j-1).t()
\*    + J.slice(T-j) * (PsTm.slice(T-j+1) - A * PfT.slice(T-j)) * J.slice(T-j-1).t()
LagOne(j) ==
    MatAdd(MatMul(slice(PfT, T - j), Transpose(slice(J, T - j - 1))),
           MatMul(MatMul(slice(J, T - j),
                         MatSub(slice(PsTm, T - j + 1),
                                MatMul(in.A, slice(PfT, T - j)))),
                  Transpose(slice(J, T - j - 1))))

LagStep(p) ==
    /\ pc = <<p, "lag">>
    /\ IF LagLoopTest(t)
       THEN /\ PsTm' = SetSlice(PsTm, T - t, LagOne(t))
            /\ t' = t + 1
            /\ UNCHANGED <<in, pc, fvars, J, L, K, FsT, PsT, evars, rvars>>
       ELSE /\ pc' = <<p, "ret">>
            /\ UNCHANGED <<in, t, fvars, svars, evars, rvars>>

(***************************************************************************)
(* KalmanSmoother, called on KalmanFilter's histories with the caller's C  *)
(* and R                                                                   *)
(***************************************************************************)
KS_Call ==
    /\ pc = <<"KS", "call">>
    /\ C' = in.C /\ R' = in.R
    /\ FT' = kf.F /\ PT' = kf.P /\ PfT' = kf.Pf /\ PpT' = kf.Pp
    /\ SmootherLocals(kf.F, kf.Pf, in.C.nr)
    /\ pc' = <<"KS", "J">>
    /\ t' = 0
    /\ UNCHANGED <<in, tC, tR, fp, Pp, loglik, evars, rvars>>

KS_JStep == JStep("KS")
KS_BackStep == BackStep("KS")
KS_LKStep == LKStep("KS")
KS_Seed == Seed("KS")
KS_LagStep == LagStep("KS")

\* return List::create(Fs = FsT, Ps = PsT, PsTm = PsTm)
KS_Return ==
    /\ pc = <<"KS", "ret">>
    /\ ksm' = [st |-> "ok", Fs |-> FsT, Ps |-> PsT, PsTm |-> PsTm]
    /\ pc' = <<"E", "call">>
    /\ t' = 0
    /\ NoFilterLocals
    /\ NoSmootherLocals
    /\ UNCHANGED <<in, evars, kf, ks, es>>

(***************************************************************************)
(* Estep and the KalmanFilterSmoother call it makes                        *)
(***************************************************************************)
\* Estep(X, ...) takes X by value and calls KalmanFilterSmoother(X, C, Q, R,
\* A, F0, P0), which runs its declarations up to the filter loop.
E_Call ==
    /\ pc = <<"E", "call">>
    /\ X' = in.X
    /\ FilterLocals
    /\ pc' = <<"FS", "loop">>
    /\ t' = 0
    /\ UNCHANGED <<in, svars, delta, gamma, beta, rvars>>

FS_Step ==
    /\ pc = <<"FS", "loop">>
    /\ IF t < T
       THEN IF FilterSingular(X)
            THEN Fail("FS", "singular")
            ELSE /\ FilterIteration(X)
                 /\ UNCHANGED <<in, pc, svars, evars, rvars>>
       ELSE /\ pc' = <<"FS", "init">>
            /\ UNCHANGED <<in, t, fvars, svars, evars, rvars>>

FS_Init ==
    /\ pc = <<"FS", "init">>
    /\ SmootherLocals(FT, PfT, X.nc)
    /\ pc' = <<"FS", "J">>
    /\ t' = 0
    /\ UNCHANGED <<in, fvars, evars, rvars>>

FS_JStep == JStep("FS")
FS_BackStep == BackStep("FS")
FS_LKStep == LKStep("FS")
FS_Seed == Seed("FS")
FS_LagStep == LagStep("FS")

\* return List::create(Fs = FsT, Ps = PsT, PsTm = PsTm, loglik = loglik)
FS_Return ==
    /\ pc = <<"FS", "ret">>
    /\ ks' = [st |-> "ok", Fs |-> FsT, Ps |-> PsT, PsTm |-> PsTm,
              loglik |-> loglik]
    /\ pc' = <<"E", "zero">>
    /\ t' = 0
    /\ NoFilterLocals
    /\ NoSmootherLocals
    /\ UNCHANGED <<in, evars, kf, ksm, es>>

\* A variant of ZeroNonFinite that fills the missing cells with 1.
ZeroNonFinite_Ones(Xm) ==
    LET e(i, j) == IF IsFinite(Xm.a[i][j]) THEN Xm.a[i][j] ELSE ROne
    IN  Mat(Xm.nr, Xm.nc, e)
\* X(find_nonfinite(X)).zeros()
ZeroNonFinite(Xm) ==
    LET e(i, j) == IF IsFinite(Xm.a[i][j]) THEN Xm.a[i][j] ELSE RZero
    IN  Mat(Xm.nr, Xm.nc, e)

\* mat delta(n, rp), gamma(rp, rp), beta(rp, rp), all zero; then the missing
\* cells of Estep's X are set to 0.
E_Zero ==
    /\ pc = <<"E", "zero">>
    /\ delta' = Zeros(n, rp)
    /\ gamma' = Zeros(rp, rp)
    /\ beta' = Zeros(rp, rp)
    /\ X' = ZeroNonFinite(X)
    /\ pc' = <<"E", "acc">>
    /\ t' = 0
    /\ UNCHANGED <<in, fvars, svars, rvars>>

\* delta += X.row(t).t() * Fs.row(t)
DeltaTerm(tt) == MatMul(Transpose(row(X, tt)), row(ks.Fs, tt))
\* gamma += Fs.row(t).t() * Fs.row(t) + Psmooth.slice(t)
GammaTerm(tt) ==
    MatAdd(MatMul(Transpose(row(ks.Fs, tt)), row(ks.Fs, tt)), slice(ks.Ps, tt))
\* beta += Fs.row(t).t() * Fs.row(t-1) + Wsmooth.slice(t)
BetaTerm(tt) ==
    MatAdd(MatMul(Transpose(row(ks.Fs, tt)), row(ks.Fs, tt - 1)),
           slice(ks.PsTm, tt))

E_AccStep ==
    /\ pc = <<"E", "acc">>
    /\ IF t < T
       THEN /\ delta' = MatAdd(delta, DeltaTerm(t))
            /\ gamma' = MatAdd(gamma, GammaTerm(t))
            /\ beta' = IF t > 0 THEN MatAdd(beta, BetaTerm(t)) ELSE beta
            /\ t' = t + 1
            /\ UNCHANGED <<pc, X>>
       ELSE /\ pc' = <<"E", "ret">>
            /\ UNCHANGED <<t, evars>>
    /\ UNCHANGED <<in, fvars, svars, rvars>>

\* A variant of Gamma1 that removes the first term instead of the last.
Gamma1_LeaveFirstOut ==
    MatSub(MatSub(gamma, MatMul(Transpose(row(ks.Fs, 0)), row(ks.Fs, 0))),
           slice(ks.Ps, 0))
\* gamma1 = gamma - Fs.row(T-1).t() * Fs.row(T-1) - Psmooth.slice(T-1)
Gamma1 == MatSub(MatSub(gamma, MatMul(Transpose(row(ks.Fs, T - 1)), row(ks.Fs, T - 1))),
                 slice(ks.Ps, T - 1))
\* gamma2 = gamma - Fs.row(0).t() * Fs.row(0) - Psmooth.slice(0)
Gamma2 == MatSub(MatSub(gamma, MatMul(Transpose(row(ks.Fs, 0)), row(ks.Fs, 0))),
                 slice(ks.Ps, 0))

E_Return ==
    /\ pc = <<"E", "ret">>
    /\ es' = [st |-> "ok", beta |-> beta, gamma |-> gamma, delta |-> delta,
              gamma1 |-> Gamma1, gamma2 |-> Gamma2,
              F0 |-> Transpose(row(ks.Fs, 0)), P0 |-> slice(ks.Ps, 0),
              loglik |-> ks.loglik]
    /\ pc' = <<"-", "done">>
    /\ t' = 0
    /\ NoEstepLocals
    /\ UNCHANGED <<in, fvars, svars, kf, ksm, ks>>

Next ==
    \/ KF_Step \/ KF_Return
    \/ KS_Call \/ KS_JStep \/ KS_BackStep \/ KS_LKStep \/ KS_Seed
    \/ KS_LagStep \/ KS_Return
    \/ E_Call \/ FS_Step \/ FS_Init \/ FS_JStep \/ FS_BackStep \/ FS_LKStep
    \/ FS_Seed \/ FS_LagStep \/ FS_Return
    \/ E_Zero \/ E_AccStep \/ E_Return

Spec == Init /\ [][Next]_vars

(***************************************************************************)
(* Properties                                                              *)
(***************************************************************************)
\* The data the running filter loop reads.
LoopData == IF pc[1] = "KF" THEN in.X ELSE X
InFilterLoop == pc \in {<<"KF", "loop">>, <<"FS", "loop">>} /\ t < T
SymmetricInputs == Symmetric(in.P0) /\ Symmetric(in.Q) /\ Symmetric(in.R)
AllSymmetric(Cb) == \A s \in 1..Len(Cb) : Symmetric(Cb[s])
\* The smoother gain at tt from KalmanFilter's returned histories.
GainOf(Pf, Pq, tt) ==
    MatMul(MatMul(slice(Pf, tt), Transpose(in.A)), inv(slice(Pq, tt + 1)))

\* C1: for T >= 3, KalmanFilterSmoother returns the smoothed means,
\* smoothed covariances and lag-one cross-covariances that KalmanFilter
\* followed by KalmanSmoother (with the full C and R) returns, and
\* KalmanFilter's log-likelihood.
C1_FusedEqualsFilterThenSmoother ==
    (T >= 3 /\ kf.st = "ok" /\ ksm.st = "ok" /\ ks.st # "none") =>
        /\ ks.st = "ok"
        /\ ks.Fs = ksm.Fs
        /\ ks.Ps = ksm.Ps
        /\ ks.PsTm = ksm.PsTm
        /\ ks.loglik = kf.loglik

\* C2: a filter step whose row of X has no finite entry completes, stores a
\* filtered mean and covariance equal to the predicted ones, and leaves the
\* running log-likelihood as it was.
C2_AllMissingStepIsPurePrediction ==
    [][(InFilterLoop /\ Miss(LoopData, t) = <<>>) =>
          /\ pc' = pc
          /\ t' = t + 1
          /\ row(FT', t) = row(PT', t)
          /\ slice(PfT', t) = slice(PpT', t)
          /\ loglik' = loglik]_vars

\* Row tt of the caller's X with every missing cell replaced by 0, as a
\* column.
C3_ZeroedRow(tt) ==
    LET e(i, j) == IF IsFinite(in.X.a[tt + 1][i]) THEN in.X.a[tt + 1][i] ELSE RZero
    IN  Mat(in.X.nc, 1, e)
RECURSIVE C3_DeltaSum(_)
C3_DeltaSum(k) ==
    IF k = 0 THEN Zeros(in.X.nc, rp)
    ELSE MatAdd(C3_DeltaSum(k - 1), MatMul(C3_ZeroedRow(k - 1), row(ks.Fs, k - 1)))

\* C3: Estep's delta is the sum over t of (row t of the caller's X with
\* missing cells as 0) times the smoothed mean at t; the cells are zeroed
\* only after KalmanFilterSmoother has run, so the smoothed means and the
\* log-likelihood are those of the original X; the caller's X stays as it is.
C3_DeltaZeroesMissingAfterSmoothing ==
    /\ [](/\ (pc[1] = "FS" => X = in.X)
          /\ (es.st = "ok" =>
                /\ es.delta = C3_DeltaSum(T)
                /\ es.loglik = ks.loglik
                /\ (kf.st = "ok" => es.loglik = kf.loglik)
                /\ (ksm.st = "ok" => ks.Fs = ksm.Fs)))
    /\ [][in' = in]_vars

C3_Witness ==
    /\ es.st = "ok" /\ kf.st = "ok" /\ ksm.st = "ok"
    /\ \E i \in 1..T : \E j \in 1..n : ~IsFinite(in.X.a[i][j])
    /\ \E i \in 1..n : \E j \in 1..rp : es.delta.a[i][j] # RZero

\* The gamma term at tt, and the sum of the terms lo..hi.
C4_Term(tt) ==
    MatAdd(MatMul(Transpose(row(ks.Fs, tt)), row(ks.Fs, tt)), slice(ks.Ps, tt))
RECURSIVE C4_Sum(_, _)
C4_Sum(lo, hi) ==
    IF hi < lo THEN Zeros(rp, rp) ELSE MatAdd(C4_Sum(lo, hi - 1), C4_Term(hi))

\* C4: for T >= 2, gamma is the sum over t in 0..T-1 of (smoothed mean
\* outer smoothed mean + smoothed covariance), gamma1 that sum over 0..T-2,
\* gamma2 that sum over 1..T-1, and the returned F0, P0 are the smoothed
\* mean and covariance at t = 0.
C4_GammaSums ==
    (es.st = "ok" /\ T >= 2) =>
        /\ es.gamma = C4_Sum(0, T - 1)
        /\ es.gamma1 = C4_Sum(0, T - 2)
        /\ es.gamma2 = C4_Sum(1, T - 1)
        /\ es.F0 = Transpose(row(ks.Fs, 0))
        /\ es.P0 = slice(ks.Ps, 0)

C4_Witness ==
    /\ es.st = "ok" /\ T >= 3
    /\ C4_Term(0) # C4_Term(T - 1)
    /\ es.gamma1 # es.gamma2

Rejected(r) == r.st = "error" /\ r.err = "InsufficientObservations"

\* C5: a degenerate series length ends in an explicit
\* InsufficientObservations error: T < 2 for KalmanFilter, T < 3 for
\* KalmanSmoother, KalmanFilterSmoother and Estep.
C5_ShortSeriesRejected ==
    /\ (T < 2 /\ kf.st # "none") => Rejected(kf)
    /\ (T < 3 /\ ksm.st # "none") => Rejected(ksm)
    /\ (T < 3 /\ ks.st # "none") => Rejected(ks)
    /\ (T < 3 /\ es.st # "none") => Rejected(es)

\* Slot tt of the predicted histories is the prediction made from the
\* filtered pair at tt-1.
C6_PredictedFrom(tt) ==
    /\ row(kf.P, tt) = Transpose(MatMul(in.A, Transpose(row(kf.F, tt - 1))))
    /\ slice(kf.Pp, tt) =
           MatAdd(MatMul(MatMul(in.A, slice(kf.Pf, tt - 1)), Transpose(in.A)), in.Q)

\* C6: KalmanFilter's predicted histories have T+1 slots; slot 0 is
\* (F0, P0), slot t in 1..T-1 is the prediction from the filtered pair at
\* t-1, and slot T is the forecast past the series, A * ff_{T-1} and
\* A * Pf_{T-1} * A' + Q.
C6_PredictedHistoryHoldsForecast ==
    kf.st = "ok" =>
        /\ kf.P.nr = T + 1
        /\ Len(kf.Pp) = T + 1
        /\ row(kf.P, 0) = Transpose(in.F0)
        /\ slice(kf.Pp, 0) = in.P0
        /\ \A tt \in 1..T : C6_PredictedFrom(tt)

\* C7 as stated: with symmetric P0, Q, R and T >= 3, every predicted,
\* filtered, smoothed and lag-one covariance slice is symmetric.
C7_AllCovariancesSymmetric ==
    (SymmetricInputs /\ T >= 3) =>
        /\ (kf.st = "ok" => AllSymmetric(kf.Pp) /\ AllSymmetric(kf.Pf))
        /\ (ksm.st = "ok" => AllSymmetric(ksm.Ps) /\ AllSymmetric(ksm.PsTm))

\* C7 (amended): with symmetric P0, Q, R and T >= 3, every predicted,
\* filtered and smoothed covariance slice returned by KalmanFilter and
\* KalmanSmoother is symmetric (the lag-one slices need not be).
C7_StateCovariancesSymmetric ==
    (SymmetricInputs /\ T >= 3) =>
        /\ (kf.st = "ok" => AllSymmetric(kf.Pp) /\ AllSymmetric(kf.Pf))
        /\ (ksm.st = "ok" => AllSymmetric(ksm.Ps))

C7_Witness ==
    /\ SymmetricInputs /\ T >= 3 /\ rp >= 2
    /\ kf.st = "ok" /\ ksm.st = "ok"
    /\ \E s \in 1..T : kf.Pf[s].a[1][2] # RZero /\ ksm.Ps[s].a[1][2] # RZero

\* Lag-one slot tt is the propagation from slot tt+1; slot T-1 is the seed.
C8_Propagated(tt) ==
    LET Jt == GainOf(kf.Pf, kf.Pp, tt)
        Jm == GainOf(kf.Pf, kf.Pp, tt - 1)
    IN  slice(ksm.PsTm, tt) =
            MatAdd(MatMul(slice(kf.Pf, tt), Transpose(Jm)),
                   MatMul(MatMul(Jt, MatSub(slice(ksm.PsTm, tt + 1),
                                            MatMul(in.A, slice(kf.Pf, tt)))),
                          Transpose(Jm)))
C8_Seeded ==
    LET S == inv(Innovation(in.C, in.R, slice(kf.Pp, T - 1)))
        Kg == Gain(slice(kf.Pp, T - 1), in.C, S)
    IN  slice(ksm.PsTm, T - 1) =
            MatMul(MatMul(MatSub(Eye(rp), MatMul(Kg, in.C)), in.A),
                   slice(kf.Pf, T - 2))

\* C8: for T >= 3, after KalmanSmoother returns, lag-one slot T-1 holds the
\* seed from the filtered covariance at T-2 and every slot t in 1..T-2 holds
\* the backward propagation from slot t+1 with the gains J_t and J_{t-1}.
C8_EveryLagOneSlotAssigned ==
    (T >= 3 /\ kf.st = "ok" /\ ksm.st = "ok") =>
        /\ C8_Seeded
        /\ \A tt \in 1..(T - 2) : C8_Propagated(tt)

\* The guard and the increment of step tt, from the returned histories.
C9_C(tt) == submat(in.C, Miss(in.X, tt), nmiss)
C9_S(tt) ==
    inv(MatAdd(MatMul(MatMul(C9_C(tt), slice(kf.Pp, tt)), Transpose(C9_C(tt))),
               submat(in.R, Miss(in.X, tt), Miss(in.X, tt))))
C9_xe(tt) ==
    MatSub(Transpose(submat(in.X, <<tt + 1>>, Miss(in.X, tt))),
           MatMul(C9_C(tt), Transpose(row(kf.P, tt))))
C9_Guard(tt) == det(C9_S(tt))[1] > 0
RECURSIVE C9_GuardedSum(_)
C9_GuardedSum(k) ==
    IF k = 0 THEN [c |-> 0, ld |-> ROne, q |-> RZero]
    ELSE LET prev == C9_GuardedSum(k - 1)
             xe == C9_xe(k - 1)
             S == C9_S(k - 1)
         IN  IF C9_Guard(k - 1)
             THEN [c |-> prev.c + in.X.nc,
                   ld |-> RMul(prev.ld, det(S)),
                   q |-> RAdd(prev.q, MatMul(MatMul(Transpose(xe), S), xe).a[1][1])]
             ELSE prev

C10_Smoothed(s) ==
    LET Js == GainOf(PfT, PpT, s)
    IN  /\ slice(J, s) = Js
        /\ row(FsT, s) = MatAdd(row(FT, s),
               Transpose(MatMul(Js, Transpose(MatSub(row(FsT, s + 1), row(PT, s + 1))))))
        /\ slice(PsT, s) = MatAdd(slice(PfT, s),
               MatMul(MatMul(Js, MatSub(slice(PsT, s + 1), slice(PpT, s + 1))),
                      Transpose(Js)))
C10_Untouched(s) == row(FsT, s) = Zeros(1, rp) /\ slice(PsT, s) = Zeros(rp, rp)
\* The slots the backward pass has assigned so far: T-1 before the loop,
\* then T-2, T-3, ... one per iteration.
C10_FirstAssigned ==
    IF pc[2] = "J" THEN T - 1
    ELSE IF pc[2] = "back" THEN T - t + 1
    ELSE 0

\* C10: for T >= 2 the smoothed pair at T-1 is the filtered pair at T-1, and
\* the backward pass assigns the slots T-2, ..., 0 in descending order, each
\* once, from the final smoothed pair at t+1 and the gain J_t; slots not yet
\* assigned are still zero and FsT, PsT have exactly the slots 0..T-1.
C10_BackwardPassOrder ==
    (T >= 2 /\ pc[1] \in {"KS", "FS"} /\ pc[2] \in {"J", "back", "LK", "seed", "lag", "ret"}) =>
        /\ FsT.nr = T /\ Len(PsT) = T
        /\ row(FsT, T - 1) = row(FT, T - 1)
        /\ slice(PsT, T - 1) = slice(PfT, T - 1)
        /\ \A s \in 0..(T - 2) :
              IF s >= C10_FirstAssigned /\ pc[2] # "J"
              THEN C10_Smoothed(s)
              ELSE C10_Untouched(s)

C10_Witness ==
    /\ pc = <<"KS", "back">> /\ t = T /\ T >= 3
    /\ row(FsT, 1) # row(FT, 1)
    /\ C10_Untouched(0)

=============================================================================
